---- MODULE Spec2Model ----
(***************************************************************************)
(* A model of bcls: the paginated aggregated listing of Compute Engine     *)
(* instances (src/src/compute.rs), the record decoder                      *)
(* (src/src/compute/records.rs) and the older name-filtered listing        *)
(* (src/src/compute/compute.rs).                                           *)
(*                                                                         *)
(* Strings whose characters the code inspects (record fields) are          *)
(* sequences of one-character strings; strings the code only passes on     *)
(* (tokens, error messages, URL pieces) are TLA+ strings.                  *)
(***************************************************************************)
EXTENDS Integers, Sequences, FiniteSets, TLC

\* ------------------------------------------------------------------ bounds
\* The most HTTP GETs one run may issue.
MaxGets == 3
\* The most zone entries the upstream serves during one run, over all pages.
MaxZones == 2
\* The most raw instance objects the upstream serves during one run.
MaxRecords == 2
\* The most calls of next() the direct driver of the iterator makes.
MaxCalls == 4

\* ------------------------------------------------------------ JSON values
\* A JSON value read with as_str: a missing key, a non-string, or a string.
JAbsent == [kind |-> "absent", s |-> <<>>]
JNull == [kind |-> "null", s |-> <<>>]
JNumber == [kind |-> "number", s |-> <<>>]
JStr(s) == [kind |-> "string", s |-> s]

\* Option<T>, with a filler value when None.
None(filler) == [some |-> FALSE, v |-> filler]
Some(x) == [some |-> TRUE, v |-> x]

\* A mutant of as_str: a value that is not a string reads as an empty one.
as_str_lenient(j) == Some(j.s)

\* serde_json Value::as_str on the result of get(key).
as_str(j) == IF j.kind = "string" THEN Some(j.s) ELSE None(j.s)

\* --------------------------------------------------------- string helpers
RECURSIVE split(_, _)
\* str::split(sep): the segments between separators; never an empty list.
split(s, sep) ==
    IF \A i \in 1..Len(s) : s[i] # sep
    THEN <<s>>
    ELSE LET i == CHOOSE k \in 1..Len(s) :
                      s[k] = sep /\ \A j \in 1..(k - 1) : s[j] # sep
         IN <<SubSeq(s, 1, i - 1)>> \o split(SubSeq(s, i + 1, Len(s)), sep)

\* A mutant of last: the leading segment is taken, as Iterator::next would.
first_segment(segs) == IF Len(segs) = 0 THEN None(<<>>) ELSE Some(segs[1])

\* Iterator::last.
last(segs) == IF Len(segs) = 0 THEN None(<<>>) ELSE Some(segs[Len(segs)])

\* A mutant of take: every segment is kept.
take_all(segs, n) == segs

\* Iterator::take(n).
take(segs, n) == SubSeq(segs, 1, IF Len(segs) < n THEN Len(segs) ELSE n)

RECURSIVE join(_, _)
\* [&str]::join(sep).
join(segs, sep) ==
    IF Len(segs) = 0 THEN <<>>
    ELSE IF Len(segs) = 1 THEN segs[1]
    ELSE segs[1] \o <<sep>> \o join(Tail(segs), sep)

\* ----------------------------------------------------------------- records
\* struct Instance.
Instance(name, ip, zone, machine_type, cpu_platform, status, labels, region, cell) ==
    [name |-> name, ip |-> ip, zone |-> zone, machine_type |-> machine_type,
     cpu_platform |-> cpu_platform, status |-> status, labels |-> labels,
     region |-> region, cell |-> cell]

NoInstance == Instance(<<>>, <<>>, <<>>, <<>>, <<>>, <<>>, None({}), <<>>, None(<<>>))

\* Result<Instance, Box<dyn Error>>.
Ok(inst) == [ok |-> TRUE, val |-> inst, err |-> ""]
Err(e) == [ok |-> FALSE, val |-> NoInstance, err |-> e]

\* A mutant of first_network_ip: the first interface that has a string
\* networkIP is taken.
first_valid_network_ip(ni) ==
    IF ni.kind # "array" THEN None(<<>>)
    ELSE IF \A i \in 1..Len(ni.a) : ~as_str(ni.a[i].networkIP).some
    THEN None(<<>>)
    ELSE as_str(ni.a[CHOOSE i \in 1..Len(ni.a) :
                       /\ as_str(ni.a[i].networkIP).some
                       /\ \A j \in 1..(i - 1) : ~as_str(ni.a[j].networkIP).some]
                  .networkIP)

\* networkInterfaces -> as_array -> first -> get("networkIP") -> as_str.
first_network_ip(ni) ==
    IF ni.kind # "array" THEN None(<<>>)
    ELSE IF Len(ni.a) = 0 THEN None(<<>>)
    ELSE as_str(ni.a[1].networkIP)

\* A mutant of labels_of: a label whose value is not a string is left out.
labels_of_strings_only(lb) ==
    IF lb.kind # "object" THEN None({})
    ELSE Some({[k |-> e.k, v |-> as_str(e.v).v] :
               e \in {x \in lb.m : as_str(x.v).some}})

\* labels -> as_object -> map of (k, v.as_str().unwrap_or("")).
labels_of(lb) ==
    IF lb.kind # "object" THEN None({})
    ELSE Some({[k |-> e.k, v |-> IF as_str(e.v).some THEN as_str(e.v).v ELSE <<>>] :
               e \in lb.m})

\* A mutant of cell_of: an empty cell label counts as no cell.
cell_of_nonempty(labels) ==
    IF ~labels.some THEN None(<<>>)
    ELSE IF \E e \in labels.v : e.k = "cell" /\ e.v # <<>>
    THEN Some((CHOOSE e \in labels.v : e.k = "cell").v)
    ELSE None(<<>>)

\* A mutant of cell_of: the cell label is never found.
cell_of_none(labels) == None(<<>>)

\* labels.as_ref().and_then(|l| l.get("cell")).
cell_of(labels) ==
    IF ~labels.some THEN None(<<>>)
    ELSE IF \E e \in labels.v : e.k = "cell"
    THEN Some((CHOOSE e \in labels.v : e.k = "cell").v)
    ELSE None(<<>>)

\* A mutant of region_of: only the first token of the zone is kept.
region_of_one_token(zone) == join(take(split(zone, "-"), 1), "-")

\* zone.split('-').take(2).join("-").
region_of(zone) == join(take(split(zone, "-"), 2), "-")

\* impl TryFrom<JsonValue> for Instance: each `?` returns the first error.
try_from(json) ==
    LET name == as_str(json.name)
        ip == first_network_ip(json.networkInterfaces)
        zoneStr == as_str(json.zone)
        zone == last(split(zoneStr.v, "/"))
        mtStr == as_str(json.machineType)
        machine_type == last(split(mtStr.v, "/"))
        cpu_platform == as_str(json.cpuPlatform)
        status == as_str(json.status)
        labels == labels_of(json.labels)
    IN IF ~name.some THEN Err("Missing or invalid 'name' field")
       ELSE IF ~ip.some
       THEN Err("Missing or invalid 'networkInterfaces[0].networkIP' field")
       ELSE IF ~zoneStr.some THEN Err("Missing or invalid 'zone' field")
       ELSE IF ~zone.some THEN Err("Invalid 'zone' format")
       ELSE IF ~mtStr.some THEN Err("Missing or invalid 'machineType' field")
       ELSE IF ~machine_type.some THEN Err("Invalid 'machineType' format")
       ELSE IF ~cpu_platform.some THEN Err("Missing or invalid 'cpuPlatform' field")
       ELSE IF ~status.some THEN Err("Missing or invalid 'status' field")
       ELSE Ok(Instance(name.v, ip.v, zone.v, machine_type.v, cpu_platform.v,
                        status.v, labels, region_of(zone.v), cell_of(labels)))

\* ------------------------------------------------- the upstream's records
\* A raw instance object of the wire format, by the keys the decoder reads.
Raw(name, networkInterfaces, zone, machineType, cpuPlatform, status, labels) ==
    [name |-> name, networkInterfaces |-> networkInterfaces, zone |-> zone,
     machineType |-> machineType, cpuPlatform |-> cpuPlatform, status |-> status,
     labels |-> labels]

NiAbsent == [kind |-> "absent", a |-> <<>>]
NiNotArray == [kind |-> "nonarray", a |-> <<>>]
NiArray(a) == [kind |-> "array", a |-> a]
Iface(ip) == [networkIP |-> ip]

LabelsAbsent == [kind |-> "absent", m |-> {}]
LabelsNotObject == [kind |-> "nonobject", m |-> {}]
LabelsObject(m) == [kind |-> "object", m |-> m]

\* Two well-formed records, as in tests::test_instance_from_json.
ValidA ==
    Raw(JStr(<<"i", "1">>), NiArray(<<Iface(JStr(<<"1", "0">>))>>),
        JStr(<<"p", "/", "u", "s", "-", "c", "1", "-", "a">>),
        JStr(<<"p", "/", "n", "1">>), JStr(<<"x">>), JStr(<<"R">>), LabelsAbsent)
ValidB ==
    Raw(JStr(<<"i", "2">>),
        NiArray(<<Iface(JStr(<<"1", "1">>)), Iface(JStr(<<"1", "2">>))>>),
        JStr(<<"z", "1">>), JStr(<<"e", "2">>), JStr(<<"y">>), JStr(<<"T">>),
        LabelsObject({[k |-> "cell", v |-> JStr(<<"c", "7">>)],
                      [k |-> "key1", v |-> JNumber]}))

\* What a required string field holds when it is not a string.
NotAString == {JAbsent, JNumber}

\* ValidB with one required field absent or of the wrong JSON type.
BadName == {[ValidB EXCEPT !.name = j] : j \in NotAString}
BadZone == {[ValidB EXCEPT !.zone = j] : j \in NotAString}
BadMachineType == {[ValidB EXCEPT !.machineType = j] : j \in NotAString}
BadCpuPlatform == {[ValidB EXCEPT !.cpuPlatform = j] : j \in NotAString}
BadStatus == {[ValidB EXCEPT !.status = j] : j \in NotAString}
BadIp ==
    {[ValidB EXCEPT !.networkInterfaces = n] :
        n \in {NiAbsent, NiNotArray, NiArray(<<>>)}
              \cup {NiArray(<<Iface(j), Iface(JStr(<<"1", "2">>))>>) : j \in NotAString}}
BadRaws == BadName \cup BadIp \cup BadZone \cup BadMachineType
             \cup BadCpuPlatform \cup BadStatus

\* The record sets an upstream project may hold: two well-formed records, a
\* well-formed one and one without status, or a single malformed record.
Fleets ==
    {{ValidA, ValidB}, {ValidA, [ValidB EXCEPT !.status = JAbsent]}}
        \cup {{r} : r \in BadRaws}

\* ------------------------------------------------------ the wire format
TAbsent == [kind |-> "absent", s |-> ""]
TNull == [kind |-> "null", s |-> ""]
TStr(t) == [kind |-> "string", s |-> t]
\* nextPageToken of a page: missing, not a string, or a string (one empty).
PageTokens == {TAbsent, TNull, TStr(""), TStr("abc")}

\* No "instances" key, or one that is not an array: as_array gives None.
InstAbsent == [kind |-> "absent", a |-> <<>>]
InstArray(a) == [kind |-> "array", a |-> a]
ZoneNotObject == [kind |-> "nonobject", instances |-> InstAbsent]
ZoneObject(instances) == [kind |-> "object", instances |-> instances]

\* The raw records a zone value carries.
ZoneCount(z) == Len(z.instances.a)

\* The zone values over records of f with at most n records: not an object,
\* without an instances array, or with an array of one or more records (an
\* empty array is read like a missing one).
ZoneValues(f, n) ==
    {ZoneNotObject, ZoneObject(InstAbsent)}
        \cup {ZoneObject(InstArray(a)) : a \in UNION {[1..k -> f] : k \in 1..n}}

RECURSIVE ZoneSeqs(_, _, _)
\* The items mappings, in iteration order: at most z zones, n records in all.
ZoneSeqs(f, z, n) ==
    IF z = 0 THEN {<<>>}
    ELSE {<<>>} \cup
         UNION {{<<zv>> \o rest : rest \in ZoneSeqs(f, z - 1, n - ZoneCount(zv))} :
                zv \in ZoneValues(f, n)}

ItemsAbsent == [kind |-> "absent", zones |-> <<>>]
ItemsNotObject == [kind |-> "nonobject", zones |-> <<>>]
ItemsObject(zones) == [kind |-> "object", zones |-> zones]

TransportErrors == {"connection reset", "invalid JSON body"}

\* What HttpClient::get returns.
GetOk(items, nextPageToken) ==
    [fetch |-> "ok", err |-> "", items |-> items, nextPageToken |-> nextPageToken]
GetErr(e) ==
    [fetch |-> "err", err |-> e, items |-> ItemsAbsent, nextPageToken |-> TAbsent]

\* Every answer the transport can give while z more zone entries and n more
\* records may be served.
Responses(f, z, n) ==
    {GetErr(e) : e \in TransportErrors}
        \cup {GetOk(i, t) :
                i \in {ItemsAbsent, ItemsNotObject}
                      \cup {ItemsObject(zs) : zs \in ZoneSeqs(f, z, n)},
                t \in PageTokens}

\* Responses, tabulated once per fleet and per number of zones and records left.
ResponseTable ==
    [f \in Fleets |-> [z \in 0..MaxZones |-> [n \in 0..MaxRecords |->
        Responses(f, z, n)]]]

RECURSIVE WireRecords(_)
\* The raw records of an items mapping in wire order: zone after zone, and
\* within a zone in array order.
WireRecords(zones) ==
    IF zones = <<>> THEN <<>>
    ELSE Head(zones).instances.a \o WireRecords(Tail(zones))

\* What the log keeps of an answer of the transport.
Summary(resp) ==
    [fetch |-> resp.fetch, err |-> resp.err, items |-> resp.items.kind,
     bad_zone |-> \E i \in 1..Len(resp.items.zones) :
                      resp.items.zones[i].kind # "object",
     zone_sizes |-> [i \in 1..Len(resp.items.zones) |->
                      ZoneCount(resp.items.zones[i])],
     records |-> WireRecords(resp.items.zones),
     nextPageToken |-> resp.nextPageToken]

\* ------------------------------------------------------------------ state
VARIABLES
    fleet,        \* the raw records the upstream project holds
    pc,           \* where the caller of the listing stands
    auth_token,   \* InstancesPageIterator.auth_token
    page_token,   \* InstancesPageIterator.page_token
    finished,     \* InstancesPageIterator.finished
    pages,        \* the Vec<Vec<Instance>> that collect() is building
    result,       \* what the listing call returned
    gets,         \* every HttpClient::get made: its token and its URL
    served,       \* a summary of the answer the transport gave to each
    token_log,    \* what each call of get_token returned
    calls,        \* each call of next(): what it returned and left behind
    decoded       \* a direct call of Instance::try_from: its input and result

vars == <<fleet, pc, auth_token, page_token, finished, pages, result, gets,
          served, token_log, calls, decoded>>

\* ComputeConfig.project.
Project == "test-project"
UrlBase == "https://compute.googleapis.com/compute/v1/projects/"

\* What TokenSource::get_token can return.
AuthTokens == {"mock_token"}
CredentialErrors == {"gcloud: not logged in"}
TokenOk(t) == [ok |-> TRUE, token |-> t, err |-> ""]
TokenErr(e) == [ok |-> FALSE, token |-> "", err |-> e]

\* A mutant of url_of: the continuation token is never sent.
url_of_without_token(project, token) ==
    <<UrlBase, project, "/aggregated/instances">>

\* format!(".../projects/{}/aggregated/instances[?pageToken={}]"), by pieces.
url_of(project, token) ==
    IF token.some
    THEN <<UrlBase, project, "/aggregated/instances", "?pageToken=", token.v>>
    ELSE <<UrlBase, project, "/aggregated/instances">>

\* A mutant of items_of: a page without items counts as an empty page.
items_of_or_empty(resp) == Some(resp.items.zones)

\* resp["items"].as_object().
items_of(resp) ==
    IF resp.items.kind = "object" THEN Some(resp.items.zones) ELSE None(<<>>)

\* A mutant of next_page_token: an empty token counts as a missing one.
next_page_token_nonempty(resp) ==
    IF resp.nextPageToken.kind = "string" /\ resp.nextPageToken.s # ""
    THEN Some(resp.nextPageToken.s)
    ELSE None("")

\* A mutant of next_page_token: a missing token counts as an empty one.
next_page_token_or_empty(resp) == Some(resp.nextPageToken.s)

\* resp["nextPageToken"].as_str().
next_page_token(resp) == as_str(resp.nextPageToken)

\* A mutant of object_to_instance_list: a zone without an instances array is
\* reported as a failed record.
object_to_instance_list_strict(object) ==
    IF object.instances.kind = "array"
    THEN [i \in 1..Len(object.instances.a) |-> try_from(object.instances.a[i])]
    ELSE <<Err("Missing 'instances' array")>>

\* object.get("instances").and_then(as_array).unwrap_or(&vec![]), each decoded.
object_to_instance_list(object) ==
    IF object.instances.kind = "array"
    THEN [i \in 1..Len(object.instances.a) |-> try_from(object.instances.a[i])]
    ELSE <<>>

RECURSIVE flat_map_reversed(_)
\* A mutant of flat_map: the zones are taken last to first.
flat_map_reversed(zones) ==
    IF zones = <<>> THEN <<>>
    ELSE flat_map_reversed(Tail(zones)) \o object_to_instance_list(Head(zones))

RECURSIVE flat_map(_)
\* json_response.iter().flat_map(|(_, value)| object_to_instance_list(..)).
flat_map(zones) ==
    IF zones = <<>> THEN <<>>
    ELSE object_to_instance_list(Head(zones)) \o flat_map(Tail(zones))

\* filter_map: the Ok values, in order.
filter_map(results) ==
    LET oks == SelectSeq(results, LAMBDA r : r.ok)
    IN [i \in 1..Len(oks) |-> oks[i].val]

\* A mutant of printed_of: nothing is decoded or printed past the first error.
printed_of_first_only(results) ==
    LET errs == SelectSeq(results, LAMBDA r : ~r.ok)
    IN [i \in 1..(IF Len(errs) = 0 THEN 0 ELSE 1) |-> errs[i].err]

\* What filter_map's closure prints: println!("error: {:?}", e) for each Err.
printed_of(results) ==
    LET errs == SelectSeq(results, LAMBDA r : ~r.ok)
    IN [i \in 1..Len(errs) |-> errs[i].err]

\* A mutant of error_flag: decode errors are dropped without a trace.
error_flag_never(results) == FALSE

\* The error flag filter_map's closure sets.
error_flag(results) == \E i \in 1..Len(results) : ~results[i].ok

\* Option<Result<Vec<Instance>, Box<dyn Error>>>, or the panic of expect().
RetNone == [kind |-> "None", list |-> <<>>, err |-> ""]
RetOk(list) == [kind |-> "Ok", list |-> list, err |-> ""]
RetErr(e) == [kind |-> "Err", list |-> <<>>, err |-> e]
RetPanic == [kind |-> "Panic", list |-> <<>>, err |-> ""]

NoItems == "No items in response"
ParseError == "Error parsing instances"

\* The zones the lazy flat_map has taken before expect() panics on the first
\* value that is not an object.
zones_before_panic(zones) ==
    SubSeq(zones, 1, (CHOOSE i \in 1..Len(zones) :
                         /\ zones[i].kind # "object"
                         /\ \A j \in 1..(i - 1) : zones[j].kind = "object") - 1)

\* A mutant of next: a page whose nextPageToken is the token it was asked
\* with is taken as the last page.
next_detecting_repeated_token(self_page_token, resp) ==
    LET after(fin, tok, ret, out) ==
            [finished |-> fin, page_token |-> tok, ret |-> ret, printed |-> out]
        json_response == items_of(resp)
        results == flat_map(json_response.v)
        token == next_page_token(resp)
    IN IF resp.fetch # "ok"
       THEN after(FALSE, self_page_token, RetErr(resp.err), <<>>)
       ELSE IF ~json_response.some
       THEN after(FALSE, self_page_token, RetErr(NoItems), <<>>)
       ELSE IF \E i \in 1..Len(json_response.v) : json_response.v[i].kind # "object"
       THEN after(FALSE, self_page_token, RetPanic,
                  printed_of(flat_map(zones_before_panic(json_response.v))))
       ELSE IF error_flag(results)
       THEN after(TRUE, self_page_token, RetErr(ParseError), printed_of(results))
       ELSE IF token.some /\ Some(token.v) # self_page_token
       THEN after(FALSE, Some(token.v), RetOk(filter_map(results)), <<>>)
       ELSE after(TRUE, None(""), RetOk(filter_map(results)), <<>>)

\* A mutant of next: a zone value that is not an object is passed over as a
\* zone without instances.
next_skipping_non_objects(self_page_token, resp) ==
    LET after(fin, tok, ret, out) ==
            [finished |-> fin, page_token |-> tok, ret |-> ret, printed |-> out]
        json_response == items_of(resp)
        results == flat_map(json_response.v)
        token == next_page_token(resp)
    IN IF resp.fetch # "ok"
       THEN after(FALSE, self_page_token, RetErr(resp.err), <<>>)
       ELSE IF ~json_response.some
       THEN after(FALSE, self_page_token, RetErr(NoItems), <<>>)
       ELSE IF error_flag(results)
       THEN after(TRUE, self_page_token, RetErr(ParseError), printed_of(results))
       ELSE IF token.some
       THEN after(FALSE, Some(token.v), RetOk(filter_map(results)), <<>>)
       ELSE after(TRUE, None(""), RetOk(filter_map(results)), <<>>)

\* A mutant of next: a page with decode errors yields its decoded records and
\* the iteration goes on to the next page when the page names one.
next_deferring_decode_error(self_page_token, resp) ==
    LET after(fin, tok, ret, out) ==
            [finished |-> fin, page_token |-> tok, ret |-> ret, printed |-> out]
        json_response == items_of(resp)
        results == flat_map(json_response.v)
        token == next_page_token(resp)
    IN IF resp.fetch # "ok"
       THEN after(FALSE, self_page_token, RetErr(resp.err), <<>>)
       ELSE IF ~json_response.some
       THEN after(FALSE, self_page_token, RetErr(NoItems), <<>>)
       ELSE IF \E i \in 1..Len(json_response.v) : json_response.v[i].kind # "object"
       THEN after(FALSE, self_page_token, RetPanic,
                  printed_of(flat_map(zones_before_panic(json_response.v))))
       ELSE IF token.some
       THEN after(FALSE, Some(token.v), RetOk(filter_map(results)),
                  printed_of(results))
       ELSE IF error_flag(results)
       THEN after(TRUE, self_page_token, RetErr(ParseError), printed_of(results))
       ELSE after(TRUE, None(""), RetOk(filter_map(results)), <<>>)

\* InstancesPageIterator::next past the `finished` check: the fields, the
\* return value and the lines printed once the GET made with self.page_token
\* has answered resp.
next(self_page_token, resp) ==
    LET after(fin, tok, ret, out) ==
            [finished |-> fin, page_token |-> tok, ret |-> ret, printed |-> out]
        json_response == items_of(resp)
        results == flat_map(json_response.v)
        token == next_page_token(resp)
    IN IF resp.fetch # "ok"
       THEN after(FALSE, self_page_token, RetErr(resp.err), <<>>)
       ELSE IF ~json_response.some
       THEN after(FALSE, self_page_token, RetErr(NoItems), <<>>)
       ELSE IF \E i \in 1..Len(json_response.v) : json_response.v[i].kind # "object"
       THEN after(FALSE, self_page_token, RetPanic,
                  printed_of(flat_map(zones_before_panic(json_response.v))))
       ELSE IF error_flag(results)
       THEN after(TRUE, self_page_token, RetErr(ParseError), printed_of(results))
       ELSE IF token.some
       THEN after(FALSE, Some(token.v), RetOk(filter_map(results)), <<>>)
       ELSE after(TRUE, None(""), RetOk(filter_map(results)), <<>>)

RECURSIVE flatten(_)
\* instances.into_iter().flatten().collect().
flatten(vecs) == IF vecs = <<>> THEN <<>> ELSE Head(vecs) \o flatten(Tail(vecs))

\* Result<Vec<Instance>, Box<dyn Error>> of a listing call; "none" before it.
NoResult == [kind |-> "none", list |-> <<>>, err |-> ""]
ResOk(list) == [kind |-> "Ok", list |-> list, err |-> ""]
ResErr(e) == [kind |-> "Err", list |-> <<>>, err |-> e]

\* A mutant of collect: an Err item is skipped and the collection goes on.
collect_skipping_errors(vec, ret) ==
    CASE ret.kind = "Ok" ->
           [pages |-> Append(vec, ret.list), result |-> NoResult, pc |-> "collect"]
      [] ret.kind = "Err" ->
           [pages |-> vec, result |-> NoResult, pc |-> "collect"]
      [] ret.kind = "None" ->
           [pages |-> vec, result |-> ResOk(flatten(vec)), pc |-> "returned"]
      [] ret.kind = "Panic" ->
           [pages |-> vec, result |-> NoResult, pc |-> "panicked"]

\* One turn of iter.collect::<Result<Vec<_>, _>>()? on the item ret, and, when
\* the turn ends the collection, the return of list_all_instances.
collect(vec, ret) ==
    CASE ret.kind = "Ok" ->
           [pages |-> Append(vec, ret.list), result |-> NoResult, pc |-> "collect"]
      [] ret.kind = "Err" ->
           [pages |-> vec, result |-> ResErr(ret.err), pc |-> "returned"]
      [] ret.kind = "None" ->
           [pages |-> vec, result |-> ResOk(flatten(vec)), pc |-> "returned"]
      [] ret.kind = "Panic" ->
           [pages |-> vec, result |-> NoResult, pc |-> "panicked"]

RECURSIVE ServedRecords(_)
\* The number of raw records served so far.
ServedRecords(log) ==
    IF log = <<>> THEN 0 ELSE Len(Head(log).records) + ServedRecords(Tail(log))

RECURSIVE ServedZones(_)
\* The number of zone entries served so far.
ServedZones(log) ==
    IF log = <<>> THEN 0 ELSE Len(Head(log).zone_sizes) + ServedZones(Tail(log))

\* The entry of the call log for a call of next().
Call(ret, fin, tok, ngets, out) ==
    [ret |-> ret, finished |-> fin, page_token |-> tok, gets |-> ngets,
     printed |-> out]

\* No direct call of the decoder has been made.
NoDecode == [done |-> FALSE, json |-> ValidA, res |-> Err("")]

\* --------------------------------------------------------------- actions
\* The state before a caller has done anything, at position p.
Start(p) ==
    /\ fleet \in Fleets
    /\ pc = p
    /\ auth_token = ""
    /\ page_token = None("")
    /\ finished = FALSE
    /\ pages = <<>>
    /\ result = NoResult
    /\ gets = <<>>
    /\ served = <<>>
    /\ token_log = <<>>
    /\ calls = <<>>
    /\ decoded = NoDecode

Init == Start("start")

\* The zone entries and the records the upstream may put in its next page:
\* what is left of the run's budget, and no more than one of each per page
\* when the iterator is driven directly.
ZonesLeft ==
    LET left == MaxZones - ServedZones(served)
    IN IF pc = "iter" /\ left > 1 THEN 1 ELSE left
RecordsLeft ==
    LET left == MaxRecords - ServedRecords(served)
    IN IF pc = "iter" /\ left > 1 THEN 1 ELSE left

\* A mutant of IteratorNext: the finished flag is not looked at.
IteratorNext_ignoring_finished ==
    /\ Len(gets) < MaxGets
    /\ \E resp \in ResponseTable[fleet][ZonesLeft][RecordsLeft] :
           LET n == next(page_token, resp)
           IN /\ gets' = Append(gets, [token |-> auth_token,
                                       url |-> url_of(Project, page_token)])
              /\ served' = Append(served, Summary(resp))
              /\ finished' = n.finished
              /\ page_token' = n.page_token
              /\ calls' = Append(calls, Call(n.ret, n.finished, n.page_token,
                                             Len(gets) + 1, n.printed))

\* A mutant of IteratorNext: a finished iterator returns None once and is
\* rewound to the first page.
IteratorNext_rewinding ==
    IF finished
    THEN /\ calls' = Append(calls, Call(RetNone, FALSE, None(""), Len(gets), <<>>))
         /\ finished' = FALSE
         /\ page_token' = None("")
         /\ UNCHANGED <<gets, served>>
    ELSE /\ Len(gets) < MaxGets
         /\ \E resp \in ResponseTable[fleet][ZonesLeft][RecordsLeft] :
                LET n == next(page_token, resp)
                IN /\ gets' = Append(gets, [token |-> auth_token,
                                            url |-> url_of(Project, page_token)])
                   /\ served' = Append(served, Summary(resp))
                   /\ finished' = n.finished
                   /\ page_token' = n.page_token
                   /\ calls' = Append(calls, Call(n.ret, n.finished, n.page_token,
                                                  Len(gets) + 1, n.printed))

\* One call of InstancesPageIterator::next, as the iterator sees it.
IteratorNext ==
    IF finished
    THEN /\ calls' = Append(calls, Call(RetNone, finished, page_token, Len(gets),
                                       <<>>))
         /\ UNCHANGED <<page_token, finished, gets, served>>
    ELSE /\ Len(gets) < MaxGets
         /\ \E resp \in ResponseTable[fleet][ZonesLeft][RecordsLeft] :
                LET n == next(page_token, resp)
                IN /\ gets' = Append(gets, [token |-> auth_token,
                                            url |-> url_of(Project, page_token)])
                   /\ served' = Append(served, Summary(resp))
                   /\ finished' = n.finished
                   /\ page_token' = n.page_token
                   /\ calls' = Append(calls, Call(n.ret, n.finished, n.page_token,
                                                  Len(gets) + 1, n.printed))

\* A mutant of ListAllStart: a failed get_token is ignored and the traversal
\* starts with an empty token.
ListAllStart_ignoring_failure ==
    /\ pc = "start"
    /\ \/ \E t \in AuthTokens :
              /\ token_log' = Append(token_log, TokenOk(t))
              /\ auth_token' = t
       \/ \E e \in CredentialErrors :
              /\ token_log' = Append(token_log, TokenErr(e))
              /\ auth_token' = ""
    /\ pc' = "collect"
    /\ page_token' = None("")
    /\ finished' = FALSE
    /\ UNCHANGED <<fleet, pages, result, gets, served, calls, decoded>>

\* Compute::list_all_instances up to the construction of the iterator.
ListAllStart ==
    /\ pc = "start"
    /\ \/ \E t \in AuthTokens :
              /\ token_log' = Append(token_log, TokenOk(t))
              /\ auth_token' = t
              /\ pc' = "collect"
              /\ UNCHANGED result
       \/ \E e \in CredentialErrors :
              /\ token_log' = Append(token_log, TokenErr(e))
              /\ result' = ResErr(e)
              /\ pc' = "returned"
              /\ UNCHANGED auth_token
    /\ page_token' = None("")
    /\ finished' = FALSE
    /\ UNCHANGED <<fleet, pages, gets, served, calls, decoded>>

\* A mutant of ListAllCollect: the token is fetched anew for every page.
ListAllCollect_refetching_token ==
    /\ pc = "collect"
    /\ IteratorNext
    /\ LET c == collect(pages, calls'[Len(calls')].ret)
       IN /\ pages' = c.pages
          /\ pc' = c.pc
          /\ result' = c.result
    /\ token_log' = Append(token_log, TokenOk(auth_token))
    /\ UNCHANGED <<fleet, auth_token, decoded>>

\* One turn of the collection in list_all_instances: a call of next() and what
\* collect and the rest of the function do with the item.
ListAllCollect ==
    /\ pc = "collect"
    /\ IteratorNext
    /\ LET c == collect(pages, calls'[Len(calls')].ret)
       IN /\ pages' = c.pages
          /\ pc' = c.pc
          /\ result' = c.result
    /\ UNCHANGED <<fleet, auth_token, token_log, decoded>>

Next == ListAllStart \/ ListAllCollect

Spec == Init /\ [][Next]_vars

\* ------------------------------------------ the iterator, driven directly
\* The iterator before InstancesPageIterator::new, over an upstream that
\* holds a well-formed record and one without status.
IterInit ==
    Start("iter_new") /\ fleet = {ValidA, [ValidB EXCEPT !.status = JAbsent]}

\* InstancesPageIterator::new(config, auth_token).
IterNew ==
    /\ pc = "iter_new"
    /\ \E t \in AuthTokens : auth_token' = t
    /\ page_token' = None("")
    /\ finished' = FALSE
    /\ pc' = "iter"
    /\ UNCHANGED <<fleet, pages, result, gets, served, token_log, calls, decoded>>

\* A caller that holds the iterator calls next() once more.
IterCall ==
    /\ pc = "iter"
    /\ Len(calls) < MaxCalls
    /\ IteratorNext
    /\ pc' = IF calls'[Len(calls')].ret.kind = "Panic" THEN "panicked" ELSE "iter"
    /\ UNCHANGED <<fleet, auth_token, pages, result, token_log, decoded>>

IterStep == IterNew \/ IterCall

IterSpec == IterInit /\ [][IterStep]_vars

\* ---------------------------------- the name-filtered listing (one GET)
\* The name patterns a caller passes to list_instances.
NamePatterns == {<<"i">>, <<"w", "e", "b", " ", "1">>}

\* urlencoding::encode of one character: unreserved ones are kept.
encode_char(c) ==
    CASE c = "(" -> <<"%", "2", "8">>
      [] c = ")" -> <<"%", "2", "9">>
      [] c = " " -> <<"%", "2", "0">>
      [] c = "*" -> <<"%", "2", "A">>
      [] OTHER -> <<c>>

RECURSIVE encode(_)
\* urlencoding::encode.
encode(str) == IF str = <<>> THEN <<>> ELSE encode_char(Head(str)) \o encode(Tail(str))

\* format!("(name eq .*{}.*)", instance_name).
filter_of(instance_name) ==
    <<"(", "n", "a", "m", "e", " ", "e", "q", " ", ".", "*">>
        \o instance_name \o <<".", "*", ")">>

\* format!(".../projects/{}/aggregated/instances?filter={}"), by pieces.
filter_url_of(project, instance_name) ==
    <<UrlBase, project, "/aggregated/instances", "?filter=",
      encode(filter_of(instance_name))>>

\* records::Instance::from_json, the decoder this listing calls.
from_json(json) == try_from(json)

RECURSIVE flat_map_unwrap(_)
\* flat_map(|(_, zone_data)| zone_data["instances"].as_array().unwrap()
\*     .iter().map(from_json).collect()), for zones that all have the array.
flat_map_unwrap(zones) ==
    IF zones = <<>> THEN <<>>
    ELSE [i \in 1..Len(Head(zones).instances.a) |->
             from_json(Head(zones).instances.a[i])]
         \o flat_map_unwrap(Tail(zones))

\* Iterator::flatten over Results: an Ok gives its value, an Err gives nothing.
flatten_results(results) ==
    LET oks == SelectSeq(results, LAMBDA r : r.ok)
    IN [i \in 1..Len(oks) |-> oks[i].val]

\* Compute::list_instances past the GET: what it returns for resp.
list_instances_of(resp) ==
    IF resp.fetch # "ok" THEN RetErr(resp.err)
    ELSE IF resp.items.kind # "object" THEN RetErr(NoItems)
    ELSE IF \E i \in 1..Len(resp.items.zones) :
                resp.items.zones[i].instances.kind # "array"
    THEN RetPanic
    ELSE RetOk(flatten_results(flat_map_unwrap(resp.items.zones)))

FilterInit == Start("filter_start")

\* Compute::list_instances(instance_name) of compute/compute.rs, as a whole.
ListInstances ==
    /\ pc = "filter_start"
    /\ \E instance_name \in NamePatterns :
        \/ \E e \in CredentialErrors :
              /\ token_log' = Append(token_log, TokenErr(e))
              /\ result' = ResErr(e)
              /\ pc' = "returned"
              /\ UNCHANGED <<auth_token, gets, served>>
        \/ \E t \in AuthTokens, resp \in ResponseTable[fleet][MaxZones][MaxRecords] :
              LET ret == list_instances_of(resp)
              IN /\ token_log' = Append(token_log, TokenOk(t))
                 /\ auth_token' = t
                 /\ gets' = Append(gets, [token |-> t,
                                          url |-> filter_url_of(Project, instance_name)])
                 /\ served' = Append(served, Summary(resp))
                 /\ result' = CASE ret.kind = "Ok" -> ResOk(ret.list)
                                [] ret.kind = "Err" -> ResErr(ret.err)
                                [] OTHER -> NoResult
                 /\ pc' = IF ret.kind = "Panic" THEN "panicked" ELSE "returned"
    /\ UNCHANGED <<fleet, page_token, finished, pages, calls, decoded>>

FilterNext == ListInstances

FilterSpec == FilterInit /\ [][FilterNext]_vars

\* ------------------------------------------- the decoder, called directly
\* The zone URL of tests::test_instance_from_json and one of a real project.
TestZoneUrl ==
    <<"p", "r", "o", "j", "e", "c", "t", "s", "/", "1", "2", "3", "4", "5",
      "/", "z", "o", "n", "e", "s", "/", "t", "e", "s", "t", "-", "r",
      "e", "g", "i", "o", "n", "-", "f", "o", "o">>
ProjectZoneUrl ==
    <<"p", "r", "o", "j", "e", "c", "t", "s", "/", "1", "2", "3", "/", "z",
      "o", "n", "e", "s", "/", "u", "s", "-", "c", "e", "n", "t", "r",
      "a", "l", "1", "-", "a">>

\* The values of each key the decoder reads, well-formed and degenerate.
DecodeNames == {JStr(<<"i", "1">>), JStr(<<>>), JAbsent}
DecodeInterfaces ==
    {NiArray(<<Iface(JStr(<<"1", "0">>))>>),
     NiArray(<<Iface(JStr(<<"1", "1">>)), Iface(JStr(<<"1", "2">>))>>),
     NiArray(<<>>), NiArray(<<Iface(JNumber)>>),
     NiArray(<<Iface(JAbsent), Iface(JStr(<<"1", "2">>))>>)}
DecodeZones ==
    {JNumber, JStr(<<>>), JStr(<<"z", "1">>), JStr(<<"p", "/">>), JStr(<<"/">>),
     JStr(<<"a", "-", "b">>), JStr(<<"z", "/", "a", "-", "b", "-", "c", "-", "d">>),
     JStr(<<"a", "-", "-", "c">>), JStr(TestZoneUrl), JStr(ProjectZoneUrl)}
DecodeMachineTypes ==
    {JAbsent, JStr(<<>>), JStr(<<"e", "2">>), JStr(<<"p", "/", "n", "1">>),
     JStr(<<"n", "/">>)}
DecodeCpuPlatforms == {JStr(<<"x">>), JNull}
DecodeStatuses == {JStr(<<"R">>), JAbsent}
DecodeLabels ==
    {LabelsAbsent, LabelsNotObject, LabelsObject({}),
     LabelsObject({[k |-> "key1", v |-> JStr(<<"v">>)]}),
     LabelsObject({[k |-> "cell", v |-> JStr(<<"c", "7">>)],
                   [k |-> "key1", v |-> JNumber]}),
     LabelsObject({[k |-> "cell", v |-> JNumber]})}

\* The JSON values a caller hands to the decoder.
DecodeInputs ==
    {Raw(n, ni, z, mt, cp, st, lb) :
        n \in DecodeNames, ni \in DecodeInterfaces, z \in DecodeZones,
        mt \in DecodeMachineTypes, cp \in DecodeCpuPlatforms,
        st \in DecodeStatuses, lb \in DecodeLabels}

DecodeInit == Start("decode") /\ fleet = {ValidA, ValidB}

\* Instance::try_from(json), called once.
TryFrom ==
    /\ pc = "decode"
    /\ \E json \in DecodeInputs :
          decoded' = [done |-> TRUE, json |-> json, res |-> try_from(json)]
    /\ pc' = "decoded"
    /\ UNCHANGED <<fleet, auth_token, page_token, finished, pages, result, gets,
                   served, token_log, calls>>

DecodeNext == TryFrom

DecodeSpec == DecodeInit /\ [][DecodeNext]_vars

\* ---------------------------------------------------------------- claims
\* try_from, tabulated over the records of every fleet.
Decoded == [r \in UNION Fleets |-> try_from(r)]

\* The decoded form of the raw records of one served page, in wire order.
DecodedPage(page) == [j \in 1..Len(page.records) |-> Decoded[page.records[j]].val]

RECURSIVE ExpectedList(_)
\* The concatenation, in page order, of the decoded records of every page.
ExpectedList(log) ==
    IF log = <<>> THEN <<>> ELSE DecodedPage(Head(log)) \o ExpectedList(Tail(log))

\* A page that was fetched, has an items object whose zone entries are all
\* objects, and whose records all decode.
GoodPage(page) ==
    /\ page.fetch = "ok"
    /\ page.items = "object"
    /\ ~page.bad_zone
    /\ \A j \in 1..Len(page.records) : Decoded[page.records[j]].ok

\* The pages served so far form a whole chain: good pages, all but the last
\* with a nextPageToken and the last with none.
CompleteChain ==
    /\ Len(served) >= 1
    /\ \A i \in 1..Len(served) :
          /\ GoodPage(served[i])
          /\ i < Len(served) => served[i].nextPageToken.kind = "string"
          /\ i = Len(served) => served[i].nextPageToken.kind = "absent"

\* Some served record does not decode.
BadServed ==
    \E i \in 1..Len(served) :
        \E j \in 1..Len(served[i].records) : ~Decoded[served[i].records[j]].ok

\* The URL carries a pageToken query parameter.
HasPageToken(url) == Len(url) = 5 /\ url[4] = "?pageToken="

\* C1: over a chain of n >= 1 good pages of which only the last has no
\* nextPageToken, list_all_instances makes exactly n GETs (the iterator is
\* finished after page n, so the closing call of next() fetches nothing) and
\* returns Ok with every instance of every page.
C1_ChainTerminates ==
    CompleteChain =>
        /\ Len(gets) = Len(served)
        /\ \/ pc = "collect" /\ finished
           \/ /\ pc = "returned"
              /\ result.kind = "Ok"
              /\ Len(result.list) = ServedRecords(served)
              /\ \A i \in 1..Len(served) : \A j \in 1..Len(served[i].records) :
                    \E k \in 1..Len(result.list) :
                        result.list[k] = Decoded[served[i].records[j]].val

C1_Witness ==
    /\ pc = "returned"
    /\ CompleteChain
    /\ Len(served) = 3
    /\ Len(gets) = 3
    /\ result.kind = "Ok"
    /\ Len(result.list) = 2

\* C2: a successful list_all_instances returns exactly the concatenation, in
\* page order, of each page's records, zone after zone in the iteration order
\* of items and in array order within a zone: nothing dropped, duplicated or
\* reordered.
C2_ListIsConcatenation ==
    (pc = "returned" /\ result.kind = "Ok") => result.list = ExpectedList(served)

C2_Witness ==
    /\ pc = "returned"
    /\ result.kind = "Ok"
    /\ Len(served) = 2
    /\ served[1].zone_sizes = <<1, 1>>
    /\ served[1].records = <<ValidB, ValidA>>
    /\ result.list = <<try_from(ValidB).val, try_from(ValidA).val>>

\* C3: when every fetch succeeded and some served record failed to decode, the
\* traversal has stopped, no instance list is returned, and what
\* list_all_instances returns is the single error "Error parsing instances",
\* although other records decoded.
C3_DecodeFailureIsAggregateError ==
    ((\A i \in 1..Len(served) : served[i].fetch = "ok") /\ BadServed) =>
        /\ pc \in {"returned", "panicked"}
        /\ result.kind # "Ok"
        /\ pc = "returned" => result = ResErr(ParseError)

C3_Witness ==
    /\ pc = "returned"
    /\ result = ResErr(ParseError)
    /\ Len(served) = 2
    /\ served[1].records = <<ValidA>>
    /\ served[2].records = <<[ValidB EXCEPT !.status = JAbsent]>>

\* C4: list_instances(name_pattern) never returns Ok when a record of the
\* response failed to decode: it fails as a whole.
C4_FilteredAllOrNothing ==
    (pc = "returned" /\ BadServed) => result.kind = "Err"

\* C5: when the GET for page k fails, list_all_instances returns that same
\* transport error, page k is the last GET, and no instance is returned.
C5_TransportErrorStops ==
    \A k \in 1..Len(served) :
        served[k].fetch = "err" =>
            /\ k = Len(served)
            /\ Len(gets) = k
            /\ pc = "returned"
            /\ result = ResErr(served[k].err)

C5_Witness ==
    /\ pc = "returned"
    /\ Len(served) = 2
    /\ served[1].records = <<ValidA, ValidA>>
    /\ served[2].fetch = "err"
    /\ result = ResErr("connection reset")

\* C6: when a fetched page has no items object, list_all_instances fails with
\* "No items in response", which is not the decode error, returns no instance,
\* and that page is the last GET, whatever its nextPageToken.
C6_NoItemsStops ==
    \A k \in 1..Len(served) :
        (served[k].fetch = "ok" /\ served[k].items # "object") =>
            /\ k = Len(served)
            /\ Len(gets) = k
            /\ pc = "returned"
            /\ result = ResErr(NoItems)
            /\ result # ResErr(ParseError)

C6_Witness ==
    /\ pc = "returned"
    /\ Len(served) = 2
    /\ served[2].fetch = "ok"
    /\ served[2].items = "absent"
    /\ served[2].nextPageToken = TStr("abc")
    /\ result = ResErr(NoItems)

\* C7: when get_token fails, list_all_instances returns that error, makes no
\* GET and never calls next().
C7_CredentialErrorStops ==
    \A i \in 1..Len(token_log) :
        ~token_log[i].ok =>
            /\ pc = "returned"
            /\ result = ResErr(token_log[i].err)
            /\ gets = <<>>
            /\ calls = <<>>

C7_Witness ==
    /\ pc = "returned"
    /\ token_log = <<TokenErr("gcloud: not logged in")>>
    /\ result = ResErr("gcloud: not logged in")

\* C8: once next() has returned an error or has set finished, every later
\* call of next() returns None and makes no GET.
C8_ErrorOrFinishedIsTerminal ==
    \A i \in 1..Len(calls) : \A j \in 1..Len(calls) :
        (i < j /\ (calls[i].ret.kind = "Err" \/ calls[i].finished)) =>
            /\ calls[j].ret = RetNone
            /\ calls[j].gets = calls[i].gets

\* C9: the first GET has no pageToken parameter, and GET k+1 carries as
\* pageToken exactly the nextPageToken string of page k.
C9_TokenPassedVerbatim ==
    \A k \in 1..Len(gets) :
        IF k = 1 THEN ~HasPageToken(gets[k].url)
        ELSE /\ HasPageToken(gets[k].url)
             /\ served[k - 1].nextPageToken.kind = "string"
             /\ gets[k].url[5] = served[k - 1].nextPageToken.s

C9_Witness ==
    /\ Len(gets) = 3
    /\ served[1].nextPageToken = TStr("abc")
    /\ served[2].nextPageToken = TStr("")
    /\ gets[2].url[5] = "abc"
    /\ gets[3].url[5] = ""

\* The well-formed record decodes.
ValidBDecodes == try_from(ValidB).ok

\* The well-formed record with one required field spoilt does not decode.
BadRawsRejected ==
    \A r \in BadName \cup BadIp \cup BadZone \cup BadMachineType
              \cup BadCpuPlatform \cup BadStatus : ~try_from(r).ok

\* C10: ValidB decodes, ValidB with any one of name,
\* networkInterfaces[0].networkIP, zone, machineType, cpuPlatform or status
\* absent or not a string does not, and no such object was served in a
\* traversal whose listing succeeded.
C10_RequiredFields ==
    /\ ValidBDecodes
    /\ BadRawsRejected
    /\ result.kind = "Ok" =>
          \A i \in 1..Len(served) : \A j \in 1..Len(served[i].records) :
              served[i].records[j] \notin BadRaws

C10_Witness ==
    /\ pc = "returned"
    /\ result = ResErr(ParseError)
    /\ \E i \in 1..Len(served) : \E j \in 1..Len(served[i].records) :
          served[i].records[j] \in BadCpuPlatform

\* The part of s after its last "/", or s itself when it has none.
AfterLastSlash(s) ==
    LET slashes == {i \in 1..Len(s) : s[i] = "/"}
        cut == IF slashes = {} THEN 0
               ELSE CHOOSE i \in slashes : \A j \in slashes : j <= i
    IN SubSeq(s, cut + 1, Len(s))

\* Every field the decoder requires is present in json as a string.
AllRequiredStrings(json) ==
    /\ json.name.kind = "string"
    /\ json.networkInterfaces.kind = "array"
    /\ Len(json.networkInterfaces.a) >= 1
    /\ json.networkInterfaces.a[1].networkIP.kind = "string"
    /\ json.zone.kind = "string"
    /\ json.machineType.kind = "string"
    /\ json.cpuPlatform.kind = "string"
    /\ json.status.kind = "string"

\* C11: a raw object whose required fields are all strings decodes, and the
\* instance has the input's name, first networkIP, cpuPlatform and status, and
\* as zone and machine_type the part of the input's zone and machineType after
\* the last "/".
C11_FieldsReadBack ==
    (decoded.done /\ AllRequiredStrings(decoded.json)) =>
        /\ decoded.res.ok
        /\ decoded.res.val.name = decoded.json.name.s
        /\ decoded.res.val.ip = decoded.json.networkInterfaces.a[1].networkIP.s
        /\ decoded.res.val.cpu_platform = decoded.json.cpuPlatform.s
        /\ decoded.res.val.status = decoded.json.status.s
        /\ decoded.res.val.zone = AfterLastSlash(decoded.json.zone.s)
        /\ decoded.res.val.machine_type = AfterLastSlash(decoded.json.machineType.s)

C11_Witness ==
    /\ decoded.done
    /\ decoded.res.ok
    /\ decoded.json.zone = JStr(TestZoneUrl)
    /\ decoded.json.machineType = JStr(<<"p", "/", "n", "1">>)
    /\ Len(decoded.json.networkInterfaces.a) = 2
    /\ decoded.res.val.ip = <<"1", "1">>
    /\ decoded.res.val.zone =
          <<"t", "e", "s", "t", "-", "r", "e", "g", "i", "o", "n", "-", "f", "o", "o">>
    /\ decoded.res.val.machine_type = <<"n", "1">>

\* The positions of the dashes of a short zone.
Dashes(zone) == {i \in 1..Len(zone) : zone[i] = "-"}

\* C12: a decoded instance whose zone has exactly two dashes (a-b-c) has as
\* region the zone up to its second dash (a-b), and the zone URL
\* projects/123/zones/us-central1-a decodes to zone us-central1-a and region
\* us-central1.
C12_RegionOfZone ==
    (decoded.done /\ decoded.res.ok) =>
        /\ Cardinality(Dashes(decoded.res.val.zone)) = 2 =>
              \E i \in Dashes(decoded.res.val.zone) :
                  /\ \A j \in Dashes(decoded.res.val.zone) : j <= i
                  /\ decoded.res.val.region = SubSeq(decoded.res.val.zone, 1, i - 1)
        /\ decoded.json.zone = JStr(ProjectZoneUrl) =>
              /\ decoded.res.val.zone =
                    <<"u", "s", "-", "c", "e", "n", "t", "r", "a", "l", "1", "-", "a">>
              /\ decoded.res.val.region =
                    <<"u", "s", "-", "c", "e", "n", "t", "r", "a", "l", "1">>

C12_Witness ==
    /\ decoded.done
    /\ decoded.res.ok
    /\ decoded.json.zone = JStr(ProjectZoneUrl)
    /\ Cardinality(Dashes(decoded.res.val.zone)) = 2
    /\ decoded.res.val.region =
          <<"u", "s", "-", "c", "e", "n", "t", "r", "a", "l", "1">>

\* C13: a raw object with every required field and no labels key decodes with
\* labels absent and cell absent; one whose labels object has the key cell
\* decodes with cell present and equal to the cell label, which is the
\* input's when that is a string.
C13_LabelsAndCell ==
    (decoded.done /\ AllRequiredStrings(decoded.json)) =>
        /\ decoded.json.labels.kind = "absent" =>
              /\ decoded.res.ok
              /\ ~decoded.res.val.labels.some
              /\ ~decoded.res.val.cell.some
        /\ (/\ decoded.json.labels.kind = "object"
            /\ \E e \in decoded.json.labels.m : e.k = "cell") =>
              /\ decoded.res.ok
              /\ decoded.res.val.labels.some
              /\ decoded.res.val.cell.some
              /\ \A e \in decoded.res.val.labels.v :
                    e.k = "cell" => decoded.res.val.cell.v = e.v
              /\ \A e \in decoded.json.labels.m :
                    (e.k = "cell" /\ e.v.kind = "string") =>
                        decoded.res.val.cell.v = e.v.s

C13_Witness ==
    /\ decoded.done
    /\ decoded.res.ok
    /\ [k |-> "cell", v |-> JStr(<<"c", "7">>)] \in decoded.json.labels.m
    /\ decoded.res.val.cell = Some(<<"c", "7">>)

\* A good page one of whose zone objects has no instances array.
HasZoneWithoutInstances(page) ==
    /\ GoodPage(page)
    /\ \E z \in 1..Len(page.zone_sizes) : page.zone_sizes[z] = 0

\* C14: a zone object without an instances array adds no instance and is no
\* error: the call of next() for its page returns Ok with the records of the
\* page's other zones, the iterator goes on exactly when the page has a
\* nextPageToken, and a listing that returns after such a page as its last
\* page returns Ok.
C14_ZoneWithoutInstances ==
    \A k \in 1..Len(served) :
        HasZoneWithoutInstances(served[k]) =>
            /\ calls[k].ret = RetOk(DecodedPage(served[k]))
            /\ calls[k].finished = (served[k].nextPageToken.kind # "string")
            /\ (pc = "returned" /\ k = Len(served)) =>
                  /\ result.kind = "Ok"
                  /\ Len(result.list) = ServedRecords(served)

C14_Witness ==
    /\ pc = "returned"
    /\ Len(served) = 2
    /\ ~served[1].bad_zone
    /\ served[1].zone_sizes = <<0, 1>>
    /\ served[1].records = <<ValidA>>
    /\ served[1].nextPageToken = TStr("abc")
    /\ served[2].zone_sizes = <<>>
    /\ result = ResOk(<<Decoded[ValidA].val>>)

\* C15: list_instances(name_pattern) goes on to the next page whenever a
\* response carries a nextPageToken, so when it returns Ok the last page it
\* fetched carried none.
C15_FilteredListingPaginates ==
    (pc = "returned" /\ result.kind = "Ok") =>
        /\ Len(served) >= 1
        /\ served[Len(served)].nextPageToken.kind # "string"

\* The decode errors of the failing records of a page, in wire order.
PageErrors(page) ==
    LET bad == SelectSeq(page.records, LAMBDA r : ~Decoded[r].ok)
    IN [i \in 1..Len(bad) |-> Decoded[bad[i]].err]

\* C16: on a fetched page with an items object of zone objects, every record
\* of every zone is decoded, those after the first failing one too: next()
\* prints the decode error of each failing record of the page, in wire order,
\* and when there is one it flags the page: it returns "Error parsing
\* instances" and sets finished.
C16_WholePageDecoded ==
    \A k \in 1..Len(served) :
        (served[k].fetch = "ok" /\ served[k].items = "object" /\ ~served[k].bad_zone) =>
            /\ calls[k].printed = PageErrors(served[k])
            /\ PageErrors(served[k]) # <<>> =>
                  /\ calls[k].ret = RetErr(ParseError)
                  /\ calls[k].finished

C16_Witness ==
    /\ Len(served) = 1
    /\ served[1].zone_sizes = <<1, 1>>
    /\ served[1].records = <<[ValidB EXCEPT !.status = JAbsent],
                             [ValidB EXCEPT !.status = JAbsent]>>
    /\ Len(calls[1].printed) = 2
    /\ calls[1].ret = RetErr(ParseError)

\* Page k was fetched, has an items object, holds a record that does not
\* decode, and carries a nextPageToken.
BadPageWithToken(k) ==
    /\ served[k].fetch = "ok"
    /\ served[k].items = "object"
    /\ PageErrors(served[k]) # <<>>
    /\ served[k].nextPageToken.kind = "string"

\* C17, as claimed: a decode failure on a page k that carries a nextPageToken
\* does not stop pagination, so a listing that has returned fetched a page
\* after page k.
C17_DecodeFailureKeepsPaginating ==
    \A k \in 1..Len(served) :
        (BadPageWithToken(k) /\ pc = "returned") => Len(served) > k

\* C17, amended: a decode failure on a page k stops pagination although the
\* page carries a nextPageToken: page k is the last page fetched and the call
\* of next() that decoded it is the last one; the iterator is finished and
\* list_all_instances has returned "Error parsing instances", unless a zone
\* value of page k is not an object, in which case that call has panicked.
C17_DecodeFailureStopsPagination ==
    \A k \in 1..Len(served) :
        BadPageWithToken(k) =>
            /\ k = Len(served)
            /\ Len(gets) = k
            /\ Len(calls) = k
            /\ IF served[k].bad_zone
               THEN pc = "panicked"
               ELSE /\ calls[k].finished
                    /\ pc = "returned"
                    /\ result = ResErr(ParseError)

C17_Witness ==
    /\ pc = "returned"
    /\ Len(served) = 2
    /\ Len(gets) < MaxGets
    /\ served[1].records = <<ValidA>>
    /\ BadPageWithToken(2)
    /\ ~served[2].bad_zone
    /\ served[2].nextPageToken = TStr("abc")
    /\ result = ResErr(ParseError)

\* C18: every GET has been answered before anything else happens, and a GET
\* for page k+1 is made only after page k was fetched, had an items object of
\* zone objects, had all its records decoded and carried a nextPageToken.
C18_NextPageOnlyAfterGoodPage ==
    /\ Len(gets) = Len(served)
    /\ \A k \in 1..Len(gets) :
          k > 1 =>
              /\ GoodPage(served[k - 1])
              /\ served[k - 1].nextPageToken.kind = "string"
              /\ calls[k - 1].ret.kind = "Ok"

C18_Witness ==
    /\ Len(gets) = 3
    /\ served[1].records = <<ValidA>>
    /\ served[2].records = <<ValidB>>
    /\ served[1].nextPageToken = TStr("abc")
    /\ served[2].nextPageToken = TStr("abc")

\* C19: list_all_instances calls get_token exactly once, before any GET, and
\* every GET of the traversal carries the token that call returned.
C19_TokenFetchedOnce ==
    /\ Len(token_log) = IF pc = "start" THEN 0 ELSE 1
    /\ gets # <<>> =>
          /\ token_log[1].ok
          /\ \A k \in 1..Len(gets) : gets[k].token = token_log[1].token

C19_Witness ==
    /\ pc = "returned"
    /\ Len(gets) = 3
    /\ token_log = <<TokenOk("mock_token")>>
    /\ \A k \in 1..3 : gets[k].token = "mock_token"

\* The string j is empty after its last "/": it is "" or ends in "/".
EmptyTrailingSegment(j) == j.kind = "string" /\ AfterLastSlash(j.s) = <<>>

\* C20: decoding fails when the zone or the machineType of the input is a
\* string whose part after the last "/" is empty.
C20_EmptySegmentRejected ==
    (/\ decoded.done
     /\ \/ EmptyTrailingSegment(decoded.json.zone)
        \/ EmptyTrailingSegment(decoded.json.machineType)) =>
        ~decoded.res.ok

\* C21: no Instance has an empty name: a raw object whose name is the empty
\* string is not decoded.
C21_NameNotEmpty ==
    (decoded.done /\ decoded.res.ok) => decoded.res.val.name # <<>>

\* The error of a record whose ip cannot be read.
IpError == "Missing or invalid 'networkInterfaces[0].networkIP' field"

\* C22: only networkInterfaces[0] is read for ip: when it has a string
\* networkIP and the other required fields are strings, ip is that value
\* whatever the later interfaces hold; when it has none, the decode fails on
\* the ip even if a later interface has a string networkIP.
C22_FirstInterfaceOnly ==
    (/\ decoded.done
     /\ decoded.json.name.kind = "string"
     /\ decoded.json.networkInterfaces.kind = "array"
     /\ Len(decoded.json.networkInterfaces.a) >= 1) =>
        IF decoded.json.networkInterfaces.a[1].networkIP.kind = "string"
        THEN AllRequiredStrings(decoded.json) =>
                /\ decoded.res.ok
                /\ decoded.res.val.ip = decoded.json.networkInterfaces.a[1].networkIP.s
        ELSE /\ ~decoded.res.ok
             /\ decoded.res.err = IpError

C22_Witness ==
    /\ decoded.done
    /\ decoded.json.name.kind = "string"
    /\ decoded.json.networkInterfaces =
          NiArray(<<Iface(JAbsent), Iface(JStr(<<"1", "2">>))>>)
    /\ decoded.res = Err(IpError)

\* The keys of a set of labels.
Keys(m) == {e.k : e \in m}

\* C23: when labels is a JSON object and the required fields are strings, the
\* decode succeeds whatever the label values are, and the decoded map has the
\* keys of the input object, each once, with a string value kept as it is and
\* any other value turned into the empty string.
C23_LabelValuesCoerced ==
    (/\ decoded.done
     /\ AllRequiredStrings(decoded.json)
     /\ decoded.json.labels.kind = "object") =>
        /\ decoded.res.ok
        /\ decoded.res.val.labels.some
        /\ Keys(decoded.res.val.labels.v) = Keys(decoded.json.labels.m)
        /\ Cardinality(decoded.res.val.labels.v) = Cardinality(decoded.json.labels.m)
        /\ \A e \in decoded.json.labels.m :
              [k |-> e.k, v |-> IF e.v.kind = "string" THEN e.v.s ELSE <<>>]
                  \in decoded.res.val.labels.v

C23_Witness ==
    /\ decoded.done
    /\ decoded.res.ok
    /\ [k |-> "key1", v |-> JNumber] \in decoded.json.labels.m
    /\ decoded.res.val.labels.v =
          {[k |-> "cell", v |-> <<"c", "7">>], [k |-> "key1", v |-> <<>>]}

\* C24: finished is monotone over the calls of next(): once a call has left
\* it true every later call leaves it true, and the iterator's field is what
\* the last call left; once a call has returned None every later call returns
\* None, makes no GET and leaves the continuation token as it was.
C24_FinishedIsMonotone ==
    /\ calls # <<>> =>
          /\ finished = calls[Len(calls)].finished
          /\ page_token = calls[Len(calls)].page_token
    /\ \A i \in 1..Len(calls) : \A j \in 1..Len(calls) :
          i < j =>
              /\ calls[i].finished => calls[j].finished
              /\ calls[i].ret = RetNone =>
                    /\ calls[j].ret = RetNone
                    /\ calls[j].gets = calls[i].gets
                    /\ calls[j].page_token = calls[i].page_token

C24_Witness ==
    /\ Len(calls) = 4
    /\ calls[1].ret.kind = "Ok"
    /\ calls[2].ret = RetErr(ParseError)
    /\ calls[2].page_token = Some("abc")
    /\ calls[3].ret = RetNone
    /\ calls[4].ret = RetNone
    /\ calls[4].gets = 2
    /\ finished
    /\ page_token = Some("abc")

\* Page k ends the traversal: its fetch failed, it has no items object, one of
\* its records does not decode, or it has no string nextPageToken.
PageEnds(k) ==
    \/ served[k].fetch # "ok"
    \/ served[k].items # "object"
    \/ PageErrors(served[k]) # <<>>
    \/ served[k].nextPageToken.kind # "string"

\* C25: once list_all_instances has its token, it returns only after a page
\* that failed to fetch, lacked items, had a decode failure or lacked a string
\* nextPageToken, and such a page is always the last one: the call has
\* returned, or is about to (finished is set), or has panicked on a zone value
\* that is not an object. While every page is well-formed and carries a token
\* the call has not returned and is set to fetch again with the page's token,
\* however many pages were fetched and also when the token repeats.
C25_NoPageCap ==
    (token_log # <<>> /\ token_log[1].ok) =>
        /\ pc = "returned" => (served # <<>> /\ PageEnds(Len(served)))
        /\ \A k \in 1..Len(served) :
              PageEnds(k) =>
                  /\ k = Len(served)
                  /\ pc \in {"returned", "collect", "panicked"}
                  /\ pc = "collect" => finished
                  /\ pc = "panicked" => served[k].bad_zone
        /\ (\A k \in 1..Len(served) : ~PageEnds(k) /\ ~served[k].bad_zone) =>
              /\ pc = "collect"
              /\ ~finished
              /\ served # <<>> =>
                    page_token = Some(served[Len(served)].nextPageToken.s)

C25_Witness ==
    /\ pc = "collect"
    /\ ~finished
    /\ Len(served) = MaxGets
    /\ \A k \in 1..Len(served) :
          ~PageEnds(k) /\ served[k].nextPageToken = TStr("abc")
    /\ page_token = Some("abc")

\* C26: after a well-formed page whose nextPageToken is present but not a
\* string the iterator is finished as after a page without one: the page is
\* the last one and the listing returns Ok. After one whose nextPageToken is
\* the empty string the iterator goes on, and the following GET carries a
\* pageToken parameter that is empty.
C26_TokenKinds ==
    \A k \in 1..Len(served) :
        GoodPage(served[k]) =>
            /\ served[k].nextPageToken = TNull =>
                  /\ calls[k].ret.kind = "Ok"
                  /\ calls[k].finished
                  /\ k = Len(served)
                  /\ pc = "returned" => result = ResOk(ExpectedList(served))
            /\ served[k].nextPageToken = TStr("") =>
                  /\ calls[k].ret.kind = "Ok"
                  /\ ~calls[k].finished
                  /\ calls[k].page_token = Some("")
                  /\ k < Len(gets) =>
                        /\ HasPageToken(gets[k + 1].url)
                        /\ gets[k + 1].url[5] = ""

C26_Witness ==
    /\ pc = "returned"
    /\ Len(served) = 2
    /\ served[1].records = <<ValidA>>
    /\ served[1].nextPageToken = TStr("")
    /\ gets[2].url = <<UrlBase, Project, "/aggregated/instances", "?pageToken=", "">>
    /\ GoodPage(served[2])
    /\ served[2].nextPageToken = TNull
    /\ result.kind = "Ok"

\* C27: on a fetched page with an items object one of whose values is not an
\* object, next() panics: it returns no value, the page is the last one, and
\* list_all_instances has yielded neither Ok nor Err.
C27_NonObjectZonePanics ==
    \A k \in 1..Len(served) :
        (served[k].fetch = "ok" /\ served[k].items = "object" /\ served[k].bad_zone) =>
            /\ k = Len(served)
            /\ calls[k].ret = RetPanic
            /\ pc = "panicked"
            /\ result = NoResult

C27_Witness ==
    /\ pc = "panicked"
    /\ Len(served) = 2
    /\ served[1].records = <<ValidA>>
    /\ served[2].bad_zone
    /\ served[2].zone_sizes = <<0>>
    /\ result = NoResult

\* C28: a decoded instance has a cell exactly when it has labels with the key
\* cell, which is exactly when the input's labels is an object with that key;
\* a labels value that is not an object is no decode error and gives neither
\* labels nor cell; a cell label that is not a string gives the empty cell.
C28_CellFollowsLabels ==
    /\ (/\ decoded.done
        /\ AllRequiredStrings(decoded.json)
        /\ decoded.json.labels.kind = "nonobject") => decoded.res.ok
    /\ (decoded.done /\ decoded.res.ok) =>
          /\ decoded.res.val.cell.some <=>
                /\ decoded.res.val.labels.some
                /\ "cell" \in Keys(decoded.res.val.labels.v)
          /\ decoded.res.val.cell.some <=>
                /\ decoded.json.labels.kind = "object"
                /\ "cell" \in Keys(decoded.json.labels.m)
          /\ decoded.json.labels.kind = "nonobject" =>
                /\ ~decoded.res.val.labels.some
                /\ ~decoded.res.val.cell.some
          /\ \A e \in decoded.json.labels.m :
                (e.k = "cell" /\ e.v.kind # "string") =>
                    decoded.res.val.cell = Some(<<>>)

C28_Witness ==
    /\ decoded.done
    /\ decoded.res.ok
    /\ decoded.json.labels = LabelsObject({[k |-> "cell", v |-> JNumber]})
    /\ decoded.res.val.cell = Some(<<>>)

\* C29: the region of a decoded instance is a prefix of its zone and has at
\* most one dash (two tokens), and it is the whole zone when the zone has
\* fewer than three dash-separated tokens.
C29_RegionIsPrefix ==
    (decoded.done /\ decoded.res.ok) =>
        /\ Len(decoded.res.val.region) <= Len(decoded.res.val.zone)
        /\ decoded.res.val.region =
              SubSeq(decoded.res.val.zone, 1, Len(decoded.res.val.region))
        /\ Cardinality(Dashes(decoded.res.val.region)) <= 1
        /\ Cardinality(Dashes(decoded.res.val.zone)) <= 1 =>
              decoded.res.val.region = decoded.res.val.zone

C29_Witness ==
    /\ decoded.done
    /\ decoded.res.ok
    /\ decoded.json.zone = JStr(<<"z", "1">>)
    /\ decoded.res.val.zone = <<"z", "1">>
    /\ decoded.res.val.region = <<"z", "1">>

====
